---------------------------- MODULE Spec2Model ----------------------------
(***************************************************************************)
(* Model of obsidian.syncthing.deconflicter.py: one periodic pass that     *)
(* gates on quiescence, scans the tree for Syncthing conflict artifacts,   *)
(* finds a backup in .stversions, union-merges with git merge-file and     *)
(* deletes the artifact.                                                   *)
(*                                                                         *)
(* A path is a sequence of tokens; the string it stands for is the         *)
(* concatenation of its tokens.  A file is a record [present, lines,       *)
(* mtime]; lines is the set of text lines it holds.                        *)
(***************************************************************************)
EXTENDS Integers, Sequences, FiniteSets, TLC

(* ---------------------------- configuration --------------------------- *)

STVERSIONS_DIR == ".stversions"
LOG_PATH == <<"deconflicter.log">>
MIN_IDLE_TIME == 600

(* ------------------------------- bounds ------------------------------- *)

\* runs of main() in one behaviour
MaxRuns == 2
\* runs of main() started by two unlocked schedulers in one behaviour
MaxStarts == 3
\* file changes made by anyone but the tool in one behaviour
MaxExt == 1
\* the clock at the start, its step, and the last instant modelled
T0 == 1000
TickStep == 400
MaxTime == 2000

(* ------------------------------- tokens ------------------------------- *)

\* sync-conflict-\d{8}-\d{6}-\w{7}
Markers ==
    {"sync-conflict-20240102-130000-abcd123",
     "sync-conflict-20240203-140000-wxyz789"}
\* ~\d{8}-\d{6}
Stamps == {"~20240101-120000"}
\* (?:\.|%2F)
Separators == {".", "%2F"}

MARK == "sync-conflict-20240102-130000-abcd123"
MARK2 == "sync-conflict-20240203-140000-wxyz789"
STAMP == "~20240101-120000"

ORIG_A == <<"notes/a", ".", "md">>
ART_A == <<"notes/a", ".", MARK, ".", "md">>
BAK_A == <<STVERSIONS_DIR, "/", "notes/a", STAMP, ".", "md">>
\* the same three, one level down: the artifact lies inside the backup store
ORIG_SV == <<STVERSIONS_DIR, "/", "notes/a", ".", "md">>
ART_SV == <<STVERSIONS_DIR, "/", "notes/a", ".", MARK, ".", "md">>
BAK_SV == <<STVERSIONS_DIR, "/", STVERSIONS_DIR, "/", "notes/a", STAMP, ".", "md">>

\* a second artifact of notes/a.md, from another device
ART_A2 == <<"notes/a", ".", MARK2, ".", "md">>
\* an old version of notes/a.mdx in the backup store
BAK_AX == <<STVERSIONS_DIR, "/", "notes/a", STAMP, ".", "md", "x">>
\* a note without an extension, its artifact and its old version
ORIG_B == <<"notes/b">>
ART_B == <<"notes/b", ".", MARK>>
BAK_B == <<STVERSIONS_DIR, "/", "notes/b", STAMP>>

CorePaths == {ORIG_A, ART_A, BAK_A, ORIG_SV, ART_SV, BAK_SV}
NamePaths == {ART_A2, BAK_AX, ORIG_B, ART_B, BAK_B}
TreePaths == CorePaths \cup NamePaths
Paths == TreePaths \cup {LOG_PATH}

\* the files others write (the user edits a note) and the files others
\* delete (the user or the sync engine clears an artifact)
EditedPaths == {ORIG_A}
DeletedPaths == {ART_A, ART_SV}

None == <<>>

Absent == [present |-> FALSE, lines |-> {}, mtime |-> 0]
File(ls, t) == [present |-> TRUE, lines |-> ls, mtime |-> t]

\* the content a file of the tree starts with: the original and the backup
\* agree, the artifact carries the divergent copy
InitialLines(p) ==
    IF p \in {ART_A, ART_SV, ART_B} THEN {"A", "C"}
    ELSE IF p = ART_A2 THEN {"A", "D"}
    ELSE IF p = BAK_AX THEN {"X"}
    ELSE {"A", "B"}

(* ---------------------------- sequence tools -------------------------- *)

Prefix(s, n) == SubSeq(s, 1, n)
Suffix(s, n) == SubSeq(s, n, Len(s))
IsPrefixOf(s, t) == Len(s) <= Len(t) /\ Prefix(t, Len(s)) = s
Last(s) == s[Len(s)]
Range(s) == {s[i] : i \in 1..Len(s)}

\* the orders in which a walk may yield the files of S
Orders(S) ==
    {s \in [1..Cardinality(S) -> S] : \A p \in S : \E i \in DOMAIN s : s[i] = p}

(* ------------------------------ the regex ----------------------------- *)

\* positions i at which a separator is followed by a conflict marker
MarkerAt(p) ==
    {i \in 1..(Len(p) - 1) : p[i] \in Separators /\ p[i + 1] \in Markers}

\* CONFLICT_REGEX.match(p): the lazy first group stops at the first marker,
\* "\.?" swallows one dot after it, the second group is the rest
ConflictMatches(p) == MarkerAt(p) # {}

FirstMarker(p) == CHOOSE i \in MarkerAt(p) : \A j \in MarkerAt(p) : i <= j

ConflictBase(p) == Prefix(p, FirstMarker(p) - 1)

\* a second group that keeps the dot "\.?" should have swallowed
ConflictExt_keeps_dot(p) == Suffix(p, FirstMarker(p) + 2)

ConflictExt(p) ==
    LET r == Suffix(p, FirstMarker(p) + 2)
    IN IF r # <<>> /\ r[1] = "." THEN Tail(r) ELSE r

\* original = f"{base_name}.{ext}" if ext else base_name
OriginalOf(base, ext) ==
    IF ext # <<>> THEN base \o <<".">> \o ext ELSE base

(* ------------------------------ the files ----------------------------- *)

\* os.path.isfile that answers yes for every path
isfile_always(fs, p) == TRUE

isfile(fs, p) == p \in DOMAIN fs /\ fs[p].present

\* os.walk(dir): the files whose path lies under dir
Walk(fs, dir) ==
    {p \in DOMAIN fs : fs[p].present /\ IsPrefixOf(dir, p)}

\* no_recent_file_changes(".", seconds) at instant t
no_recent_file_changes(fs, t, seconds) ==
    \A p \in Walk(fs, <<>>) : ~(fs[p].mtime > t - seconds)

\* find_conflict_files("."): the set the generator yields
find_conflict_files(fs) == {p \in Walk(fs, <<>>) : ConflictMatches(p)}

\* pattern.match(candidate): the pattern is anchored at the start only
BackupPatternMatches(base, ext, c) ==
    \E s \in Stamps :
        IsPrefixOf(<<STVERSIONS_DIR, "/">> \o base \o <<s, ".">> \o ext, c)

\* find_backup_file: the candidates one of which is the first of the walk
find_backup_file(fs, base, ext) ==
    {c \in Walk(fs, <<STVERSIONS_DIR, "/">>) : BackupPatternMatches(base, ext, c)}

\* git merge-file --union original backup conflict: a line stays when both
\* sides have it, or when one side added it to the base
merge_union(o, b, c) == (o \cap c) \cup (o \ b) \cup (c \ b)


(* --------------------------- the collaborators ------------------------ *)

\* subprocess.check_output(["pgrep", "-x", "Obsidian"]): exit 0, exit 1 (no
\* such process), exit 2 or 3 (pgrep's own error), or pgrep cannot be run
PgrepOutcomes == {"found", "no_match", "pgrep_error", "not_runnable"}

\* what the except clause of is_obsidian_running does not catch
ObsidianRaises(out) == out = "not_runnable"

is_obsidian_running(out) == out = "found"

\* requests.get(...), raise_for_status(), json().get("state")
Responses ==
    {"connection_error", "timeout", "http_error", "not_json", "json_not_object",
     "no_state_field", "state_scanning", "state_idle"}

\* the responses on which the try block raises: requests.get (no connection,
\* timeout), raise_for_status (non-2xx), json() (no JSON), .get (no object)
SyncRaises(r) ==
    r \in {"connection_error", "timeout", "http_error", "not_json",
           "json_not_object"}

\* is_syncthing_idle that tests state != "scanning" in place of == "idle"
is_syncthing_idle_unless_scanning(r) == ~SyncRaises(r) /\ r # "state_scanning"

is_syncthing_idle(r) == ~SyncRaises(r) /\ r = "state_idle"

\* subprocess.run(["git", "merge-file", ...]): exit 0, exit nonzero, or git
\* cannot be run
GitOutcomes == {"exit_zero", "exit_nonzero", "not_runnable"}

GitRaises(g) == g = "not_runnable"

(* ------------------------------- the log ------------------------------ *)

SKIP_OBSIDIAN == "Skipped: Obsidian is running"
SKIP_SYNCTHING == "Skipped: Syncthing is active"
SKIP_RECENT == "Skipped: recent file changes detected"
NO_CONFLICTS == "No conflicts found"
RESOLVED == "Resolved N conflict(s): "
SYNC_ERROR == "Error checking Syncthing status: "

SkipTexts == {SKIP_OBSIDIAN, SKIP_SYNCTHING, SKIP_RECENT}

LogLine(t, text, paths) ==
    [time |-> t, text |-> text, n |-> Len(paths), paths |-> paths]

\* log_run(message): one line appended to the log file
log_run(l, t, text, paths) == Append(l, LogLine(t, text, paths))

\* a summary that names the first resolved file only
Summary_first_only(t, res) ==
    IF res # <<>> THEN LogLine(t, RESOLVED, <<Head(res)>>)
    ELSE LogLine(t, NO_CONFLICTS, <<>>)

\* the summary main() builds from resolved_files
Summary(t, res) ==
    IF res # <<>> THEN LogLine(t, RESOLVED, res) ELSE LogLine(t, NO_CONFLICTS, <<>>)

(* ------------------------------- the state ---------------------------- *)

VARIABLES
    fs,          \* the files under the working directory
    now,         \* the clock
    log,         \* the lines this run appended to deconflicter.log (the
                 \* program never reads the file: older lines are dropped)
    pc,          \* where the current run of main() stands
    runs,        \* runs started so far
    conflicts,   \* main: conflicts
    idx,         \* main: position of the for loop in conflicts
    resolved,    \* main: resolved_files
    pgrep,       \* this run: what the process query did
    resp,        \* this run: what the status request did
    quiet,       \* this run: what no_recent_file_changes returned
    chosen,      \* process_conflict: the backup find_backup_file returned
    steps,       \* this run: the operations invoked
    processed,   \* this run: calls of process_conflict per path
    merged,      \* this run: calls of merge_files per path
    facts,       \* this run: what process_conflict met per path
    written,     \* this run: files the tool wrote (created or overwrote)
    removed,     \* this run: files the tool deleted
    extOps,      \* file changes made by others so far
    extTouched,  \* this run: files changed by others
    prevEnd,     \* how the previous run ended
    snap,        \* this run: the files as they were when the run started
    probe,       \* a path put to the matcher on its own, and what it gave
    inst,        \* unlocked instances of main() running side by side
    tally,       \* what those instances did to the artifacts, over all runs
    period       \* the scheduler's period

vars ==
    <<fs, now, log, pc, runs, conflicts, idx, resolved, pgrep, resp, quiet,
      chosen, steps, processed, merged, facts, written, removed,
      extOps, extTouched, prevEnd, snap, probe, inst, tally, period>>

\* the variables only the side specifications move
side_vars == <<probe, inst, tally, period>>

main_vars == <<conflicts, idx, resolved, chosen>>
gate_vars == <<pgrep, resp, quiet>>
call_vars == <<processed, merged, facts>>
env_vars == <<extOps, extTouched>>

Terminal == {"Skipped", "Done", "Crashed"}

NoCalls == [p \in TreePaths |-> 0]
NoFacts ==
    [p \in TreePaths |-> [original |-> FALSE, backup |-> None, git |-> "none"]]

NoProbe ==
    [stage |-> "none", path |-> <<>>,
     given |-> [base |-> <<>>, sep |-> "", mark |-> "", ext |-> <<>>],
     base |-> <<>>, ext |-> <<>>, original |-> <<>>]
NoInstances == <<>>
NoTally == <<>>

Init ==
    /\ \E S \in SUBSET CorePaths :
           fs = [p \in Paths |->
                    IF p \in S THEN File(InitialLines(p), 0) ELSE Absent]
    /\ now = T0
    /\ log = <<>>
    /\ pc = "Idle"
    /\ runs = 0
    /\ conflicts = <<>>
    /\ idx = 1
    /\ resolved = <<>>
    /\ pgrep = "none"
    /\ resp = "none"
    /\ quiet = "none"
    /\ chosen = None
    /\ steps = {}
    /\ processed = NoCalls
    /\ merged = NoCalls
    /\ facts = NoFacts
    /\ written = {}
    /\ removed = {}
    /\ extOps = 0
    /\ extTouched = {}
    /\ prevEnd = "none"
    /\ snap = fs
    /\ probe = NoProbe
    /\ inst = NoInstances
    /\ tally = NoTally
    /\ period = 0

\* the file system after log_run at instant t
TouchLog(f, t) == [f EXCEPT ![LOG_PATH] = File({}, t)]

(* ---------------------------- the environment ------------------------- *)

\* time passes between two runs: a run is short against the clock's step
Tick ==
    /\ pc \in Terminal \cup {"Idle"}
    /\ now + TickStep <= MaxTime
    /\ now' = now + TickStep
    /\ UNCHANGED <<fs, log, pc, runs, main_vars, gate_vars, steps, call_vars,
                   written, removed, env_vars, prevEnd, snap, side_vars>>

\* the user or the sync engine writes a file of the tree
ExtWrite ==
    /\ extOps < MaxExt
    /\ \E p \in EditedPaths :
           /\ fs' = [fs EXCEPT ![p] = File(@.lines \cup {"U"}, now)]
           /\ extTouched' = extTouched \cup {p}
    /\ extOps' = extOps + 1
    /\ UNCHANGED <<now, log, pc, runs, main_vars, gate_vars, steps, call_vars,
                   written, removed, prevEnd, snap, side_vars>>

\* the user or the sync engine deletes a file of the tree
ExtDelete ==
    /\ extOps < MaxExt
    /\ \E p \in DeletedPaths :
           /\ fs[p].present
           /\ fs' = [fs EXCEPT ![p] = Absent]
           /\ extTouched' = extTouched \cup {p}
    /\ extOps' = extOps + 1
    /\ UNCHANGED <<now, log, pc, runs, main_vars, gate_vars, steps, call_vars,
                   written, removed, prevEnd, snap, side_vars>>

(* -------------------------------- main() ------------------------------ *)

\* the scheduler starts main()
StartRun ==
    /\ pc \in Terminal \cup {"Idle"}
    /\ runs < MaxRuns
    /\ runs' = runs + 1
    /\ prevEnd' = IF pc = "Idle" THEN "none" ELSE pc
    /\ pc' = "is_obsidian_running"
    /\ conflicts' = <<>>
    /\ idx' = 1
    /\ resolved' = <<>>
    /\ chosen' = None
    /\ pgrep' = "none"
    /\ resp' = "none"
    /\ quiet' = "none"
    /\ steps' = {}
    /\ processed' = NoCalls
    /\ merged' = NoCalls
    /\ facts' = NoFacts
    /\ written' = {}
    /\ removed' = {}
    /\ log' = <<>>
    /\ extTouched' = {}
    /\ snap' = fs
    /\ UNCHANGED <<fs, now, extOps, side_vars>>

\* main() without the return after the Obsidian skip
AfterObsidian_no_return(out) ==
    IF ObsidianRaises(out) THEN "Crashed" ELSE "is_syncthing_idle"

\* main(), lines 111-113: where it goes after is_obsidian_running
AfterObsidian(out) ==
    IF ObsidianRaises(out) THEN "Crashed"
    ELSE IF is_obsidian_running(out) THEN "Skipped"
    ELSE "is_syncthing_idle"

\* main(), lines 115-117: where it goes after is_syncthing_idle
AfterSyncthing(r) ==
    IF ~is_syncthing_idle(r) THEN "Skipped" ELSE "no_recent_file_changes"

\* main() that ignores what no_recent_file_changes returned
AfterRecent_ignored(q) == "find_conflict_files"

\* main(), lines 119-121: where it goes after no_recent_file_changes
AfterRecent(q) ==
    IF ~(q = "quiet") THEN "Skipped" ELSE "find_conflict_files"

\* is_syncthing_idle whose except clause logs nothing
SyncLog_silent(l, t, r) == l

\* is_syncthing_idle, lines 46-47: the line the except clause logs
SyncLog(l, t, r) ==
    IF SyncRaises(r) THEN log_run(l, t, SYNC_ERROR, <<>>) ELSE l

\* the log file and the record of the tool's writes follow the log
LogWritten ==
    IF log' # log
    THEN fs' = TouchLog(fs, now) /\ written' = written \cup {LOG_PATH}
    ELSE UNCHANGED <<fs, written>>

CheckObsidian ==
    /\ pc = "is_obsidian_running"
    /\ \E out \in PgrepOutcomes :
           /\ pgrep' = out
           /\ pc' = AfterObsidian(out)
    /\ steps' = steps \cup {"is_obsidian_running"}
    /\ log' = IF pc' = "Skipped" THEN log_run(log, now, SKIP_OBSIDIAN, <<>>) ELSE log
    /\ LogWritten
    /\ UNCHANGED <<now, runs, main_vars, resp, quiet, call_vars, removed,
                   env_vars, prevEnd, snap, side_vars>>

CheckSyncthing ==
    /\ pc = "is_syncthing_idle"
    /\ \E r \in Responses :
           /\ resp' = r
           /\ pc' = AfterSyncthing(r)
           /\ log' = IF pc' = "Skipped"
                     THEN log_run(SyncLog(log, now, r), now, SKIP_SYNCTHING, <<>>)
                     ELSE SyncLog(log, now, r)
    /\ steps' = steps \cup {"is_syncthing_idle"}
    /\ LogWritten
    /\ UNCHANGED <<now, runs, main_vars, pgrep, quiet, call_vars, removed,
                   env_vars, prevEnd, snap, side_vars>>

CheckRecent ==
    /\ pc = "no_recent_file_changes"
    /\ steps' = steps \cup {"no_recent_file_changes"}
    /\ quiet' = IF no_recent_file_changes(fs, now, MIN_IDLE_TIME)
                THEN "quiet" ELSE "recent"
    /\ pc' = AfterRecent(quiet')
    /\ log' = IF pc' = "Skipped" THEN log_run(log, now, SKIP_RECENT, <<>>) ELSE log
    /\ LogWritten
    /\ UNCHANGED <<now, runs, main_vars, pgrep, resp, call_vars, removed,
                   env_vars, prevEnd, snap, side_vars>>

\* main(), lines 123-125: conflicts = list(find_conflict_files())
Scan ==
    /\ pc = "find_conflict_files"
    /\ steps' = steps \cup {"find_conflict_files"}
    /\ \E order \in Orders(find_conflict_files(fs)) : conflicts' = order
    /\ idx' = 1
    /\ resolved' = <<>>
    /\ pc' = "process_conflict"
    /\ UNCHANGED <<fs, now, log, runs, chosen, gate_vars, call_vars, written,
                   removed, env_vars, prevEnd, snap, side_vars>>

(* --------------------------- process_conflict ------------------------- *)

\* subprocess.run(cmd).returncode: git exits 0 only if it could read the
\* three files and met no error of its own
git_exit(f, original, backup, conflict, g) ==
    IF g = "exit_zero"
       /\ ~(isfile(f, original) /\ isfile(f, backup) /\ isfile(f, conflict))
    THEN "exit_nonzero"
    ELSE g

\* merge_files that takes any exit status of git for success
merge_files_any_exit(status) == status # "not_runnable"

\* merge_files, line 85: result.returncode == 0
merge_files(status) == status = "exit_zero"

\* a merge that writes its result into the conflict copy
Merged_into_conflict(f, t, original, backup, conflict) ==
    [f EXCEPT ![conflict] =
        File(merge_union(f[original].lines, f[backup].lines, f[conflict].lines), t)]

\* the original after git merge-file wrote the merge result into it
Merged(f, t, original, backup, conflict) ==
    [f EXCEPT ![original] =
        File(merge_union(f[original].lines, f[backup].lines, f[conflict].lines), t)]

\* an os.remove that leaves the file where it is
Removed_nothing(f, c) == f

\* the tree after os.remove(conflict)
Removed(f, c) == [f EXCEPT ![c] = Absent]

\* process_conflict returns False: the loop of main() goes on
ReturnFalse ==
    /\ idx' = idx + 1
    /\ pc' = "process_conflict"
    /\ UNCHANGED <<fs, resolved, chosen, written>>

\* process_conflict, lines 88-102: up to the return of merge_files
ProcessConflict ==
    /\ pc = "process_conflict"
    /\ idx <= Len(conflicts)
    /\ LET c == conflicts[idx]
           base == ConflictBase(c)
           ext == ConflictExt(c)
           original == OriginalOf(base, ext)
       IN /\ processed' = [processed EXCEPT ![c] = @ + 1]
          /\ IF ~ConflictMatches(c)
             THEN ReturnFalse /\ UNCHANGED <<merged, facts>>
             ELSE IF ~isfile(fs, original)
             THEN /\ ReturnFalse
                  /\ facts' = [facts EXCEPT ![c].original = fs[original].present]
                  /\ UNCHANGED merged
             ELSE IF find_backup_file(fs, base, ext) = {}
             THEN /\ ReturnFalse
                  /\ facts' = [facts EXCEPT ![c].original = fs[original].present]
                  /\ UNCHANGED merged
             ELSE \E backup \in find_backup_file(fs, base, ext), g \in GitOutcomes :
                    LET status == git_exit(fs, original, backup, c, g)
                    IN /\ merged' = [merged EXCEPT ![c] = @ + 1]
                       /\ facts' = [facts EXCEPT ![c] =
                                      [original |-> fs[original].present,
                                       backup |-> backup,
                                       git |-> status]]
                       /\ IF GitRaises(g)
                          THEN /\ pc' = "Crashed"
                               /\ UNCHANGED <<fs, idx, resolved, chosen, written>>
                          ELSE IF merge_files(status)
                          THEN /\ fs' = Merged(fs, now, original, backup, c)
                               /\ written' = written \cup {original}
                               /\ chosen' = backup
                               /\ pc' = "os_remove"
                               /\ UNCHANGED <<idx, resolved>>
                          ELSE ReturnFalse
    /\ UNCHANGED <<now, log, runs, conflicts, gate_vars, steps, removed,
                   env_vars, prevEnd, snap, side_vars>>

\* process_conflict, lines 103-104, and resolved_files.append in main()
Remove ==
    /\ pc = "os_remove"
    /\ LET c == conflicts[idx]
       IN IF fs[c].present
          THEN /\ fs' = Removed(fs, c)
               /\ removed' = removed \cup {c}
               /\ resolved' = Append(resolved, c)
               /\ idx' = idx + 1
               /\ pc' = "process_conflict"
          ELSE /\ pc' = "Crashed"
               /\ UNCHANGED <<fs, removed, resolved, idx>>
    /\ chosen' = None
    /\ UNCHANGED <<now, log, runs, conflicts, gate_vars, steps, call_vars,
                   written, env_vars, prevEnd, snap, side_vars>>

\* main(), lines 131-136
Summarize ==
    /\ pc = "process_conflict"
    /\ idx > Len(conflicts)
    /\ log' = Append(log, Summary(now, resolved))
    /\ LogWritten
    /\ pc' = "Done"
    /\ UNCHANGED <<now, runs, main_vars, gate_vars, steps, call_vars, removed,
                   env_vars, prevEnd, snap, side_vars>>

Next ==
    \/ Tick
    \/ ExtWrite
    \/ ExtDelete
    \/ StartRun
    \/ CheckObsidian
    \/ CheckSyncthing
    \/ CheckRecent
    \/ Scan
    \/ ProcessConflict
    \/ Remove
    \/ Summarize

Spec == Init /\ [][Next]_vars

(* ------------------------- trees with other names -------------------- *)

\* both notes exist; any of their artifacts and old versions may
InitNames ==
    /\ \E S \in SUBSET {ART_A, ART_A2, BAK_A, BAK_AX, ART_B, BAK_B} :
           fs = [p \in Paths |->
                    IF p \in S \cup {ORIG_A, ORIG_B}
                    THEN File(InitialLines(p), 0) ELSE Absent]
    /\ now = T0
    /\ log = <<>>
    /\ pc = "Idle"
    /\ runs = 0
    /\ conflicts = <<>>
    /\ idx = 1
    /\ resolved = <<>>
    /\ pgrep = "none"
    /\ resp = "none"
    /\ quiet = "none"
    /\ chosen = None
    /\ steps = {}
    /\ processed = NoCalls
    /\ merged = NoCalls
    /\ facts = NoFacts
    /\ written = {}
    /\ removed = {}
    /\ extOps = 0
    /\ extTouched = {}
    /\ prevEnd = "none"
    /\ snap = fs
    /\ probe = NoProbe
    /\ inst = NoInstances
    /\ tally = NoTally
    /\ period = 0

\* the runs of main() and the clock; nobody else changes the tree
NextNames ==
    \/ Tick
    \/ StartRun
    \/ CheckObsidian
    \/ CheckSyncthing
    \/ CheckRecent
    \/ Scan
    \/ ProcessConflict
    \/ Remove
    \/ Summarize

SpecNames == InitNames /\ [][NextNames]_vars

(* -------------------------- unlocked instances ------------------------ *)

\* nothing keeps a second main() from starting while one is running
Instances == {1, 2}

IdleInstance == [pc |-> "Idle", conflicts |-> <<>>, idx |-> 1, resolved |-> <<>>]

ZeroTally ==
    [merges |-> [p \in TreePaths |-> 0], failed |-> {}, overlap |-> FALSE,
     starts |-> 0]

Running(i) == inst[i].pc \notin Terminal \cup {"Idle"}

\* what an instance leaves alone
conc_frame ==
    <<log, pc, runs, main_vars, gate_vars, steps, call_vars, written, removed,
      env_vars, prevEnd, snap, probe, period>>

\* notes/a.md with an old version and one or two artifacts
InitConc ==
    /\ \E S \in {{ART_A}, {ART_A, ART_A2}} :
           fs = [p \in Paths |->
                    IF p \in S \cup {ORIG_A, BAK_A}
                    THEN File(InitialLines(p), 0) ELSE Absent]
    /\ now = T0
    /\ log = <<>>
    /\ pc = "Idle"
    /\ runs = 0
    /\ conflicts = <<>>
    /\ idx = 1
    /\ resolved = <<>>
    /\ pgrep = "none"
    /\ resp = "none"
    /\ quiet = "none"
    /\ chosen = None
    /\ steps = {}
    /\ processed = NoCalls
    /\ merged = NoCalls
    /\ facts = NoFacts
    /\ written = {}
    /\ removed = {}
    /\ extOps = 0
    /\ extTouched = {}
    /\ prevEnd = "none"
    /\ snap = fs
    /\ probe = NoProbe
    /\ inst = [i \in Instances |-> IdleInstance]
    /\ tally = ZeroTally
    /\ period = 0

\* __main__: a scheduler starts main(), whatever the other instance does
CStart(i) ==
    /\ ~Running(i)
    /\ tally.starts < MaxStarts
    /\ inst' = [inst EXCEPT ![i] = [IdleInstance EXCEPT !.pc = "gate"]]
    /\ tally' = [tally EXCEPT
                    !.starts = @ + 1,
                    !.overlap = @ \/ \E j \in Instances \ {i} : Running(j)]
    /\ UNCHANGED <<fs, now, conc_frame>>

\* main(), lines 111-121: the three checks of the gate
CGate(i) ==
    /\ inst[i].pc = "gate"
    /\ \E out \in PgrepOutcomes, r \in Responses :
           LET after ==
                   IF AfterObsidian(out) # "is_syncthing_idle" THEN AfterObsidian(out)
                   ELSE IF AfterSyncthing(r) # "no_recent_file_changes"
                   THEN AfterSyncthing(r)
                   ELSE AfterRecent(IF no_recent_file_changes(fs, now, MIN_IDLE_TIME)
                                    THEN "quiet" ELSE "recent")
           IN /\ inst' = [inst EXCEPT ![i].pc = after]
              /\ fs' = IF after = "Skipped" THEN TouchLog(fs, now) ELSE fs
    /\ UNCHANGED <<now, tally, conc_frame>>

\* main(), lines 123-125
CScan(i) ==
    /\ inst[i].pc = "find_conflict_files"
    /\ \E order \in Orders(find_conflict_files(fs)) :
           inst' = [inst EXCEPT ![i].conflicts = order,
                                ![i].idx = 1,
                                ![i].pc = "process_conflict"]
    /\ UNCHANGED <<fs, now, tally, conc_frame>>

\* process_conflict, lines 88-102, in instance i
CProcess(i) ==
    /\ inst[i].pc = "process_conflict"
    /\ inst[i].idx <= Len(inst[i].conflicts)
    /\ LET c == inst[i].conflicts[inst[i].idx]
           base == ConflictBase(c)
           ext == ConflictExt(c)
           original == OriginalOf(base, ext)
           false == [inst EXCEPT ![i].idx = @ + 1]
       IN IF ~ConflictMatches(c) \/ ~isfile(fs, original)
             \/ find_backup_file(fs, base, ext) = {}
          THEN inst' = false /\ UNCHANGED <<fs, tally>>
          ELSE \E backup \in find_backup_file(fs, base, ext), g \in GitOutcomes :
                 LET status == git_exit(fs, original, backup, c, g)
                 IN IF GitRaises(g)
                    THEN /\ inst' = [inst EXCEPT ![i].pc = "Crashed"]
                         /\ UNCHANGED <<fs, tally>>
                    ELSE IF merge_files(status)
                    THEN /\ fs' = Merged(fs, now, original, backup, c)
                         /\ tally' = [tally EXCEPT !.merges[c] = @ + 1]
                         /\ inst' = [inst EXCEPT ![i].pc = "os_remove"]
                    ELSE inst' = false /\ UNCHANGED <<fs, tally>>
    /\ UNCHANGED <<now, conc_frame>>

\* process_conflict, lines 103-104, and resolved_files.append, in instance i
CRemove(i) ==
    /\ inst[i].pc = "os_remove"
    /\ LET c == inst[i].conflicts[inst[i].idx]
       IN IF fs[c].present
          THEN /\ fs' = Removed(fs, c)
               /\ inst' = [inst EXCEPT ![i].resolved = Append(@, c),
                                        ![i].idx = @ + 1,
                                        ![i].pc = "process_conflict"]
               /\ UNCHANGED tally
          ELSE /\ inst' = [inst EXCEPT ![i].pc = "Crashed"]
               /\ tally' = [tally EXCEPT !.failed = @ \cup {c}]
               /\ UNCHANGED fs
    /\ UNCHANGED <<now, conc_frame>>

\* main(), lines 131-136, in instance i
CSummarize(i) ==
    /\ inst[i].pc = "process_conflict"
    /\ inst[i].idx > Len(inst[i].conflicts)
    /\ fs' = TouchLog(fs, now)
    /\ inst' = [inst EXCEPT ![i].pc = "Done"]
    /\ UNCHANGED <<now, tally, conc_frame>>

NextConc ==
    \/ Tick
    \/ \E i \in Instances : CStart(i)
    \/ \E i \in Instances : CGate(i)
    \/ \E i \in Instances : CScan(i)
    \/ \E i \in Instances : CProcess(i)
    \/ \E i \in Instances : CRemove(i)
    \/ \E i \in Instances : CSummarize(i)

SpecConc == InitConc /\ [][NextConc]_vars

(* --------------------------- periodic invocation ---------------------- *)

\* the scheduler's period: shorter than the idle window, or as long
Periods == {TickStep, MIN_IDLE_TIME}

Max(a, b) == IF a >= b THEN a ELSE b

\* time.time() has advanced by d: with the clock held at its origin, every
\* modification time lies d further back (times at or below 0 are all long
\* before any idle window)
Aged(f, d) == [p \in DOMAIN f |-> [f[p] EXCEPT !.mtime = Max(0, @ - d)]]

\* notes/a.md and its old version are old; the artifacts of the note came
\* in long ago or just now
InitPeriodic ==
    /\ \E S \in SUBSET {ART_A, ART_A2}, arrived \in {0, T0} :
           fs = [p \in Paths |->
                    IF p \in {ORIG_A, BAK_A} THEN File(InitialLines(p), 0)
                    ELSE IF p \in S THEN File(InitialLines(p), arrived)
                    ELSE Absent]
    /\ period \in Periods
    /\ now = T0
    /\ log = <<>>
    /\ pc = "Idle"
    /\ runs = 0
    /\ conflicts = <<>>
    /\ idx = 1
    /\ resolved = <<>>
    /\ pgrep = "none"
    /\ resp = "none"
    /\ quiet = "none"
    /\ chosen = None
    /\ steps = {}
    /\ processed = NoCalls
    /\ merged = NoCalls
    /\ facts = NoFacts
    /\ written = {}
    /\ removed = {}
    /\ extOps = 0
    /\ extTouched = {}
    /\ prevEnd = "none"
    /\ snap = fs
    /\ probe = NoProbe
    /\ inst = NoInstances
    /\ tally = NoTally

\* the scheduler starts main() one period after the previous start; the
\* editor is not running and the sync engine is idle (main, lines 111-117)
PeriodicStart ==
    /\ pc \in Terminal \cup {"Idle"}
    /\ fs' = IF pc = "Idle" THEN fs ELSE Aged(fs, period)
    /\ snap' = fs'
    /\ prevEnd' = IF pc = "Idle" THEN "none" ELSE pc
    /\ pgrep' = "no_match"
    /\ resp' = "state_idle"
    /\ pc' = AfterSyncthing(resp')
    /\ steps' = {"is_obsidian_running", "is_syncthing_idle"}
    /\ conflicts' = <<>>
    /\ idx' = 1
    /\ resolved' = <<>>
    /\ chosen' = None
    /\ quiet' = "none"
    /\ processed' = NoCalls
    /\ merged' = NoCalls
    /\ facts' = NoFacts
    /\ written' = {}
    /\ removed' = {}
    /\ log' = <<>>
    /\ extTouched' = {}
    /\ UNCHANGED <<now, runs, extOps, side_vars>>

NextPeriodic ==
    \/ PeriodicStart
    \/ CheckRecent
    \/ Scan
    \/ ProcessConflict
    \/ Remove
    \/ Summarize

\* the scheduler keeps invoking the tool and a run that started goes on
SpecPeriodic == InitPeriodic /\ [][NextPeriodic]_vars /\ WF_vars(NextPeriodic)

(* ------------------------------- claims ------------------------------- *)

\* process_conflict met everything a merge needs for p, and the merge worked
Succeeded(p) ==
    /\ facts[p].original
    /\ facts[p].backup # None
    /\ facts[p].git = "exit_zero"

InBackupStore(p) == IsPrefixOf(<<STVERSIONS_DIR, "/">>, p)

\* C1: the tool deletes an artifact only after its original existed,
\* find_backup_file returned a backup and merge_files returned success; an
\* artifact processed with any other outcome is not deleted by the tool, is
\* not in resolved_files, and (unless somebody else took it away) is still on
\* disk.
C1_DeleteOnlyAfterMerge ==
    /\ Range(resolved) = removed
    /\ \A p \in TreePaths :
           /\ p \in removed => Succeeded(p)
           /\ (processed[p] > 0 /\ ~Succeeded(p)) =>
                  /\ p \notin removed
                  /\ p \notin Range(resolved)
                  /\ p \notin extTouched => fs[p].present

\* a finished run that resolved one artifact and left another, which had no
\* backup, on disk
C1_Witness ==
    /\ pc = "Done"
    /\ ART_A \in removed
    /\ ~fs[ART_A].present
    /\ processed[ART_SV] = 1
    /\ facts[ART_SV].original
    /\ facts[ART_SV].backup = None
    /\ fs[ART_SV].present

\* C2: no run overwrites, creates or deletes a file under the backup-store
\* root, whatever the tree and the backup store hold.
C2_BackupStoreNeverMutated ==
    \A p \in written \cup removed : ~InBackupStore(p)

\* C3: when the first run completed and resolved the artifact of notes/a.md,
\* and nobody else changed a file, the run that follows it (editor not
\* running, sync engine idle) completes too, its scan yields no artifact and
\* it logs "No conflicts found".
C3_SecondRunFindsNone ==
    (/\ runs = 2
     /\ prevEnd = "Done"
     /\ extOps = 0
     /\ ~fs[ART_A].present
     /\ "C" \in fs[ORIG_A].lines
     /\ pc \in {"Skipped", "Done"}
     /\ pgrep = "no_match"
     /\ resp = "state_idle")
    => (/\ pc = "Done"
        /\ conflicts = <<>>
        /\ Len(log) = 1
        /\ log[1].text = NO_CONFLICTS)

\* C4, as claimed: in a completed run merge_files is invoked exactly once for
\* every artifact the scanner yielded.
C4_ExactlyOneMergePerArtifact ==
    pc = "Done" => \A c \in Range(conflicts) : merged[c] = 1

\* C4, amended: per run, process_conflict is invoked at most once per path,
\* only for scanned artifacts, and for each of them in a completed run;
\* merge_files is invoked at most once per artifact: once when the original
\* existed and find_backup_file returned a backup, not at all otherwise.
C4_AtMostOneMerge ==
    /\ \A p \in TreePaths :
           /\ processed[p] <= 1
           /\ merged[p] <= 1
           /\ processed[p] = 1 => p \in Range(conflicts)
           /\ merged[p] = 1 <=>
                  (processed[p] = 1 /\ facts[p].original /\ facts[p].backup # None)
    /\ pc = "Done" => \A c \in Range(conflicts) : processed[c] = 1

\* a completed run over two artifacts: one merged once, one never merged
C4_Witness ==
    /\ pc = "Done"
    /\ Len(conflicts) = 2
    /\ merged[ART_A] = 1
    /\ processed[ART_SV] = 1
    /\ merged[ART_SV] = 0

\* C5: once the editor process is detected the run is a skip in which the
\* sync engine is never queried, no idle-time scan and no conflict scan is
\* made, nothing is merged and the tool changes no file but its log.
C5_EditorShortCircuit ==
    pgrep = "found" =>
        /\ pc = "Skipped"
        /\ steps = {"is_obsidian_running"}
        /\ resp = "none"
        /\ quiet = "none"
        /\ conflicts = <<>>
        /\ processed = NoCalls
        /\ merged = NoCalls
        /\ removed = {}
        /\ written = {LOG_PATH}
        /\ Len(log) = 1
        /\ log[1].text = SKIP_OBSIDIAN

\* the editor is detected while a resolvable artifact lies in the tree
C5_Witness ==
    /\ pgrep = "found"
    /\ pc = "Skipped"
    /\ fs[ART_A].present
    /\ fs[ORIG_A].present
    /\ fs[BAK_A].present

GateFailed ==
    \/ pgrep = "found"
    \/ resp \notin {"none", "state_idle"}
    \/ quiet = "recent"

FirstFailure ==
    IF pgrep = "found" THEN SKIP_OBSIDIAN
    ELSE IF resp # "state_idle" THEN SKIP_SYNCTHING
    ELSE SKIP_RECENT

PastGate ==
    \/ "find_conflict_files" \in steps
    \/ pc \in {"find_conflict_files", "process_conflict", "os_remove", "Done"}

\* C6: a run scans or merges only after all three checks passed in that run;
\* when one fails the run ends as a skip without scanning or merging, and its
\* last log line is the skip message of the first failing check.
C6_GateBeforeScan ==
    /\ PastGate =>
           /\ pgrep \in {"no_match", "pgrep_error"}
           /\ resp = "state_idle"
           /\ quiet = "quiet"
    /\ GateFailed => pc = "Skipped"
    /\ pc = "Skipped" =>
           /\ GateFailed
           /\ "find_conflict_files" \notin steps
           /\ processed = NoCalls
           /\ merged = NoCalls
           /\ log # <<>>
           /\ Last(log).text = FirstFailure

\* the first two checks pass, the third finds a recent change
C6_Witness ==
    /\ pc = "Skipped"
    /\ pgrep = "no_match"
    /\ resp = "state_idle"
    /\ quiet = "recent"
    /\ Last(log).text = SKIP_RECENT
    /\ find_conflict_files(fs) # {}

\* C7: no run ends in an unhandled exception.
C7_NeverRaises == pc # "Crashed"

\* C8: when the process query fails, for whatever reason, is_obsidian_running
\* returns "not running" and the run goes on to the sync-idle check.
C8_QueryFailureFailsOpen ==
    (pgrep \in {"pgrep_error", "not_runnable"} /\ steps = {"is_obsidian_running"})
    => pc = "is_syncthing_idle"

\* network error, timeout, non-2xx response, malformed body
FailedRequests ==
    {"connection_error", "timeout", "http_error", "not_json", "json_not_object"}

\* C9: the run gets past the sync-idle check only on a successful response
\* whose state is "idle"; on every other response nothing is raised and the
\* run is a logged skip without idle-time scan, conflict scan or merge, and on
\* a failed request is_syncthing_idle logs an error line of its own.
C9_SyncIdleCheck ==
    resp # "none" =>
        IF resp = "state_idle"
        THEN pc = "no_recent_file_changes" \/ "no_recent_file_changes" \in steps
        ELSE /\ pc = "Skipped"
             /\ steps = {"is_obsidian_running", "is_syncthing_idle"}
             /\ conflicts = <<>>
             /\ merged = NoCalls
             /\ log # <<>>
             /\ Last(log).text = SKIP_SYNCTHING
             /\ resp \in FailedRequests => log[1].text = SYNC_ERROR

\* the status request times out while an artifact lies in the tree
C9_Witness ==
    /\ resp = "timeout"
    /\ pc = "Skipped"
    /\ log[1].text = SYNC_ERROR
    /\ find_conflict_files(fs) # {}

\* C10, as claimed: a run that ended as a skip or as a completed pass has
\* appended exactly one line.
C10_ExactlyOneLinePerRun ==
    pc \in {"Skipped", "Done"} => Len(log) = 1

\* C10, amended: a run that ended as a skip or a completed pass has appended
\* one line (the skip line or the summary), except when the status request
\* failed: then two, the error line of is_syncthing_idle and the skip line.
\* A run that has not ended, or ended in an exception, has appended none.
C10_LinesPerRun ==
    /\ pc \in {"Skipped", "Done"} =>
           /\ Len(log) = IF resp \in FailedRequests THEN 2 ELSE 1
           /\ Last(log).text \in
                  IF pc = "Skipped" THEN SkipTexts ELSE {RESOLVED, NO_CONFLICTS}
           /\ Len(log) = 2 => log[1].text = SYNC_ERROR
    /\ pc \notin {"Skipped", "Done"} => log = <<>>

\* a skip after a failed status request: two lines
C10_Witness ==
    /\ pc = "Skipped"
    /\ resp = "connection_error"
    /\ Len(log) = 2
    /\ log[1].text = SYNC_ERROR
    /\ log[2].text = SKIP_SYNCTHING

\* C11: a completed run with at least one successful merge logs one line
\* "Resolved N conflict(s): <paths>" whose paths are exactly the artifacts the
\* run deleted, each once, N being their number; the deleted artifacts are
\* gone.
C11_ResolvedSummary ==
    (pc = "Done" /\ resolved # <<>>) =>
        /\ Len(log) = 1
        /\ log[1].text = RESOLVED
        /\ Range(log[1].paths) = removed
        /\ Len(log[1].paths) = Cardinality(removed)
        /\ log[1].n = Cardinality(removed)
        /\ \A p \in removed : p \notin extTouched => ~fs[p].present

\* the end-to-end scenario: one original, one matching backup, one artifact
C11_Witness ==
    /\ pc = "Done"
    /\ Walk(fs, <<>>) = {ORIG_A, BAK_A, LOG_PATH}
    /\ removed = {ART_A}
    /\ merged[ART_A] = 1
    /\ log = <<LogLine(now, RESOLVED, <<ART_A>>)>>
    /\ log[1].n = 1

\* C12: a completed run logs "No conflicts found" only when its scan yielded
\* no artifact.
C12_NoConflictsOnlyWhenNoneFound ==
    (pc = "Done" /\ log # <<>> /\ Last(log).text = NO_CONFLICTS) => conflicts = <<>>

\* the merge target process_conflict derives from an artifact's path
OriginalPath(c) == OriginalOf(ConflictBase(c), ConflictExt(c))

\* the artifacts that lay in the tree when the run started
ArtifactsAtStart == find_conflict_files(snap)

\* C14 (as stated): when a run is done, nothing in the tree differs from
\* what it was at the start except the log, the artifacts the run resolved
\* and their originals; an artifact the run did not resolve and its original
\* both have the content they had before the run.
C14_UnresolvedUntouched ==
    pc = "Done" =>
        /\ \A p \in Paths :
               fs[p] # snap[p] =>
                   \/ p = LOG_PATH
                   \/ p \in Range(resolved)
                   \/ \E c \in Range(resolved) : p = OriginalPath(c)
        /\ \A c \in ArtifactsAtStart :
               (c \notin Range(resolved) /\ OriginalPath(c) \in Paths) =>
                   /\ fs[c] = snap[c]
                   /\ fs[OriginalPath(c)] = snap[OriginalPath(c)]

\* C14 (amended): while nobody else writes, a run changes nothing in the
\* tree except the log, the artifacts it resolved (deleted) and the originals
\* of the artifacts for which merge_files succeeded (overwritten); an
\* artifact the run did not resolve is itself unchanged, and its original
\* differs only if merge_files succeeded in this run for an artifact with
\* that original.
C14_RunFrame ==
    /\ \A p \in Paths :
           fs[p] # snap[p] =>
               \/ p = LOG_PATH
               \/ p \in Range(resolved) /\ ~fs[p].present
               \/ /\ fs[p].present
                  /\ \E c \in ArtifactsAtStart : Succeeded(c) /\ p = OriginalPath(c)
    /\ \A c \in ArtifactsAtStart :
           c \notin Range(resolved) =>
               /\ fs[c] = snap[c]
               /\ (OriginalPath(c) \in Paths /\ fs[OriginalPath(c)] # snap[OriginalPath(c)]) =>
                      \E d \in ArtifactsAtStart :
                          Succeeded(d) /\ OriginalPath(d) = OriginalPath(c)

\* a finished run resolved one artifact of notes/a.md and left the other,
\* on which git failed, as it was; notes/a.md holds the merge of the first
C14_Witness ==
    /\ pc = "Done"
    /\ resolved = <<ART_A>>
    /\ facts[ART_A2].git = "exit_nonzero"
    /\ fs[ART_A2] = snap[ART_A2]
    /\ fs[ART_A2].present
    /\ fs[ORIG_A].lines = {"A", "C"}
    /\ snap[ORIG_A].lines = {"A", "B"}

\* c is <store>/<base>~<8 digits>-<6 digits>.<ext> and nothing more
ExactBackup(base, ext, c) ==
    \E st \in Stamps : c = <<STVERSIONS_DIR, "/">> \o base \o <<st, ".">> \o ext

\* C15: the backup find_backup_file returns for an artifact is a file of the
\* backup store named exactly <baseName>~<date>-<time>.<extension>; an old
\* version whose name only starts with the extension (.mdx for md) is never
\* returned, and without an exact match process_conflict gets None.
C15_BackupEndsWithExtension ==
    \A c \in TreePaths :
        facts[c].backup # None =>
            /\ InBackupStore(facts[c].backup)
            /\ ExactBackup(ConflictBase(c), ConflictExt(c), facts[c].backup)

\* C16: for the extensionless artifact notes/b.sync-conflict-..., with
\* notes/b and the old version .stversions/notes/b~<date>-<time> in the
\* tree, find_backup_file returns that old version, and unless git fails the
\* artifact is merged and deleted.
C16_ExtensionlessBackupFound ==
    (processed[ART_B] > 0 /\ snap[ORIG_B].present /\ snap[BAK_B].present) =>
        /\ facts[ART_B].backup = BAK_B
        /\ (pc = "Done" /\ facts[ART_B].git = "exit_zero") =>
               /\ ART_B \in Range(resolved)
               /\ ~fs[ART_B].present

\* C17: as long as no instance of main() started while another was running,
\* no artifact has been merged into its original more than once over all the
\* runs and no os.remove met an artifact that was already gone; two
\* instances side by side can both merge one artifact, and the os.remove of
\* the second then fails.
C17_OneInstanceMergesOnce ==
    ~tally.overlap =>
        /\ \A c \in TreePaths : tally.merges[c] <= 1
        /\ tally.failed = {}

\* the second artifact was merged once; two instances side by side both
\* merged the first, one deleted it and the os.remove of the other failed
C17_Witness ==
    /\ tally.overlap
    /\ tally.merges[ART_A2] = 1
    /\ tally.merges[ART_A] = 2
    /\ tally.failed = {ART_A}
    /\ \E i \in Instances : inst[i].pc = "Crashed"
    /\ \E i \in Instances : ART_A \in Range(inst[i].resolved)
    /\ ~fs[ART_A].present

\* C18: invoked periodically, with the editor closed, the sync engine idle
\* and nobody else writing, some run eventually passes the idle-time check
\* and reaches the scan, whatever the period.
C18_EventuallyScans == <>(pc = "find_conflict_files")

(* ------------------------- the matcher on its own --------------------- *)

\* stems without a conflict marker, and what may follow the marker
ProbeBases ==
    {<<"notes/a">>, <<"notes/a", ".", "b">>, <<"notes">>,
     <<STVERSIONS_DIR, "/", "notes/a">>}
ProbeExts == {<<>>, <<"md">>, <<"md", "x">>, <<"tar", ".", "gz">>}

\* <base><sep>sync-conflict-<date>-<time>-<id>[.<ext>]
ArtifactPath(base, sep, mark, ext) ==
    base \o <<sep, mark>> \o (IF ext = <<>> THEN <<>> ELSE <<".">> \o ext)

\* every variable of a run at rest, over an empty tree
AtRest ==
    /\ fs = [p \in Paths |-> Absent]
    /\ now = T0
    /\ log = <<>>
    /\ pc = "Idle"
    /\ runs = 0
    /\ conflicts = <<>>
    /\ idx = 1
    /\ resolved = <<>>
    /\ pgrep = "none"
    /\ resp = "none"
    /\ quiet = "none"
    /\ chosen = None
    /\ steps = {}
    /\ processed = NoCalls
    /\ merged = NoCalls
    /\ facts = NoFacts
    /\ written = {}
    /\ removed = {}
    /\ extOps = 0
    /\ extTouched = {}
    /\ prevEnd = "none"
    /\ snap = fs

run_vars ==
    <<fs, now, log, pc, runs, conflicts, idx, resolved, pgrep, resp, quiet,
      chosen, steps, processed, merged, facts, written, removed,
      extOps, extTouched, prevEnd, snap>>

\* a file name of the artifact form, or a plain one, lies in the tree
InitMatch ==
    /\ AtRest
    /\ inst = NoInstances
    /\ tally = NoTally
    /\ period = 0
    /\ \/ \E b \in ProbeBases, sp \in Separators, m \in Markers, e \in ProbeExts :
              probe = [NoProbe EXCEPT
                          !.stage = "file",
                          !.path = ArtifactPath(b, sp, m, e),
                          !.given = [base |-> b, sep |-> sp, mark |-> m, ext |-> e]]
       \/ \E q \in {ORIG_A, BAK_A, LOG_PATH} :
              probe = [NoProbe EXCEPT !.stage = "file", !.path = q]

\* find_conflict_files, lines 67-69: the scanner tests rel_path
MatchScan ==
    /\ probe.stage = "file"
    /\ probe' = [probe EXCEPT
                    !.stage = IF ConflictMatches(probe.path)
                              THEN "yielded" ELSE "passed_over"]
    /\ UNCHANGED <<run_vars, inst, tally, period>>

\* process_conflict, lines 88-93: the matcher, the groups, the merge target
MatchProcess ==
    /\ probe.stage = "yielded"
    /\ IF ~ConflictMatches(probe.path)
       THEN probe' = [probe EXCEPT !.stage = "rejected"]
       ELSE probe' = [probe EXCEPT
                         !.stage = "accepted",
                         !.base = ConflictBase(probe.path),
                         !.ext = ConflictExt(probe.path),
                         !.original = OriginalOf(ConflictBase(probe.path),
                                                 ConflictExt(probe.path))]
    /\ UNCHANGED <<run_vars, inst, tally, period>>

NextMatch == MatchScan \/ MatchProcess

SpecMatch == InitMatch /\ [][NextMatch]_vars

\* C13: for a path <base><sep>sync-conflict-<date>-<time>-<id>[.<ext>] whose
\* base holds no marker, the scanner yields it, process_conflict's matcher
\* accepts it with baseName = <base> and extension = <ext> (empty when there
\* is none), and the merge target is <base>.<ext>, or <base> when the
\* extension is empty; whatever the scanner yields the matcher accepts.
C13_MatcherDerives ==
    /\ probe.stage # "rejected"
    /\ probe.given.mark # "" =>
           /\ probe.stage # "passed_over"
           /\ probe.stage = "accepted" =>
                  /\ probe.base = probe.given.base
                  /\ probe.ext = probe.given.ext
                  /\ probe.original =
                         IF probe.given.ext = <<>>
                         THEN probe.given.base
                         ELSE probe.given.base \o <<".">> \o probe.given.ext

\* notes%2Fsync-conflict-...-wxyz789.tar.gz went through the matcher
C13_Witness ==
    /\ probe.stage = "accepted"
    /\ probe.given.sep = "%2F"
    /\ probe.given.ext = <<"tar", ".", "gz">>
    /\ probe.base = <<"notes">>
    /\ probe.original = <<"notes", ".", "tar", ".", "gz">>

=============================================================================
